---- MODULE Spec2Model ----
(***************************************************************************)
(* Breadth-first and depth-first traversal with per-expansion trace        *)
(* snapshots, as implemented in SD23039_Lab1.py.                           *)
(*                                                                         *)
(* One behaviour is one call of breadth_first_search or                    *)
(* depth_first_search: the first step enters the function with its         *)
(* arguments and sets up the locals (lines 51-54 / 78-81), one step pops   *)
(* and snapshots a node, the following steps run the "for neighbor in      *)
(* neighbors" loop one neighbor at a time, and the last step returns.      *)
(***************************************************************************)
EXTENDS FiniteSets, Integers, Sequences, TLC

\* ---------------------------------------------------------------- bounds
\* Generated graphs use the first NumNodes labels and hold at most
\* MaxEdges adjacency entries in total.
NumNodes == 3
MaxEdges == 2

\* ------------------------------------------------------- labels and order
\* Node labels are one-character Python strings; sorted() compares them by
\* code point, which for these labels is their position in Alphabet.
Alphabet == <<"A", "B", "C", "D", "E", "F", "G", "H", "Z">>

Rank(s) == CHOOSE i \in 1..Len(Alphabet) : Alphabet[i] = s

Range(seq) == {seq[i] : i \in 1..Len(seq)}

\* The fixture graph.
LAB1_GRAPH ==
    [n \in {"A", "B", "C", "D", "E", "F", "G", "H"} |->
        CASE n = "A" -> <<"D", "B">>
          [] n = "B" -> <<"C", "E", "G">>
          [] n = "C" -> <<"A">>
          [] n = "D" -> <<"C">>
          [] n = "E" -> <<"H">>
          [] n = "F" -> <<>>
          [] n = "G" -> <<"F">>
          [] n = "H" -> <<"G", "F">>]

\* ------------------------------------------------------------ pure helpers
\* graph.get(node, []): the adjacency list, or the empty list for a node
\* that is not a key of the mapping.
Get(g, n) == IF n \in DOMAIN g THEN g[n] ELSE <<>>

RECURSIVE InsertAsc(_, _)
InsertAsc(x, sortedSeq) ==
    IF sortedSeq = <<>> THEN <<x>>
    ELSE IF Rank(x) < Rank(Head(sortedSeq)) THEN <<x>> \o sortedSeq
    ELSE <<Head(sortedSeq)>> \o InsertAsc(x, Tail(sortedSeq))

RECURSIVE SortedAsc(_)
\* sorted(seq)
SortedAsc(seq) ==
    IF seq = <<>> THEN <<>>
    ELSE InsertAsc(seq[Len(seq)], SortedAsc(SubSeq(seq, 1, Len(seq) - 1)))

\* seq[::-1]
Reverse(seq) == [i \in 1..Len(seq) |-> seq[Len(seq) + 1 - i]]

\* A sorted list the wrong way round: ascending where descending is meant.
SortedDesc_Ascending(seq) == SortedAsc(seq)

\* sorted(seq, reverse=True)
SortedDesc(seq) == Reverse(SortedAsc(seq))

RECURSIVE Join(_)
\* " → ".join(seq)
Join(seq) ==
    IF seq = <<>> THEN ""
    ELSE IF Len(seq) = 1 THEN seq[1]
    ELSE seq[1] \o " → " \o Join(Tail(seq))

\* A frontier that starts out empty instead of holding the start node.
InitFrontier_Empty(s) == <<>>

\* deque([start_node]) / [start_node]
InitFrontier(s) == <<s>>

\* A queue served from the wrong end.
PopLeft_FromRight(q) == <<q[Len(q)], SubSeq(q, 1, Len(q) - 1)>>

\* queue.popleft(): the removed head and the remaining queue.
PopLeft(q) == <<Head(q), Tail(q)>>

\* stack.pop(): the removed top (the last element) and the remaining stack.
Pop(s) == <<s[Len(s)], SubSeq(s, 1, Len(s) - 1)>>

\* neighbors of a node in the order the BFS loop examines them, unsorted.
BfsNeighbors_Unsorted(g, n) == Get(g, n)

\* neighbors = sorted(graph.get(node, []))
BfsNeighbors(g, n) == SortedAsc(Get(g, n))

\* neighbors = sorted(graph.get(node, []), reverse=True)
DfsNeighbors(g, n) == SortedDesc(Get(g, n))

\* A visited set that forgets what it held when a node is added.
Discover_Replace(vis, n) == {n}

\* A visited set that is never extended.
Discover_Skip(vis, n) == vis

\* visited.add(neighbor)
Discover(vis, n) == vis \cup {n}

\* The nodes a neighbor loop would discover, in the order it meets them.
RECURSIVE NewlySeen(_, _)
NewlySeen(nbrs, vis) ==
    IF nbrs = <<>> THEN <<>>
    ELSE IF Head(nbrs) \in vis THEN NewlySeen(Tail(nbrs), vis)
    ELSE <<Head(nbrs)>> \o NewlySeen(Tail(nbrs), vis \cup {Head(nbrs)})

\* ------------------------------------------------------------------ state
VARIABLES
    graph,           \* the graph argument (never modified)
    start_node,      \* the start_node argument
    algorithm,       \* "bfs" or "dfs": which function is running
    pc,              \* "idle": not yet called; "loop": at the while test;
                     \* "scan": inside the for loop; "done": returned
    queue,           \* BFS frontier (deque), head first
    stack,           \* DFS frontier (list), top last
    visited,         \* visited set
    expanded_order,  \* nodes expanded so far
    trace,           \* snapshots recorded so far
    node,            \* the node popped by the current iteration
    neighbors        \* the neighbors the for loop has still to examine

vars == <<graph, start_node, algorithm, pc, queue, stack, visited,
          expanded_order, trace, node, neighbors>>

NoNode == ""

\* A snapshot that also shows the children the expansion is about to discover.
Snapshot_AfterScan(nd, frontier, vis, order) ==
    LET kids == NewlySeen(SortedAsc(Get(graph, nd)), vis)
    IN  [expanded     |-> nd,
         frontier     |-> IF algorithm = "bfs" THEN frontier \o kids
                                               ELSE kids \o frontier,
         visited      |-> vis \cup Range(kids),
         process_path |-> Join(order)]

\* A snapshot whose frontier still holds the node being expanded.
Snapshot_BeforePop(nd, frontier, vis, order) ==
    [expanded     |-> nd,
     frontier     |-> <<nd>> \o frontier,
     visited      |-> vis,
     process_path |-> Join(order)]

\* The dict appended to trace; list(...) copies the live collections.
Snapshot(nd, frontier, vis, order) ==
    [expanded     |-> nd,
     frontier     |-> frontier,
     visited      |-> vis,
     process_path |-> Join(order)]

\* ----------------------------------------------------------------- inputs
Universe == {Alphabet[i] : i \in 1..NumNodes}

RECURSIVE EdgeLists(_)
\* Every adjacency mapping over Universe with at most e entries in total
\* (lists may be unsorted, repeat a neighbor, or name the node itself).
EdgeLists(e) ==
    IF e = 0 THEN {[n \in Universe |-> <<>>]}
    ELSE LET P == EdgeLists(e - 1)
         IN  P \cup {[g EXCEPT ![k] = Append(@, v)] :
                        g \in P, k \in Universe, v \in Universe}

\* The same graph with the nodes that have no outgoing edge left out of the
\* mapping.
DropSinks(g) == [k \in {n \in Universe : g[n] # <<>>} |-> g[k]]

Graphs == EdgeLists(MaxEdges) \cup {DropSinks(g) : g \in EdgeLists(MaxEdges)}

Inputs ==
    (Graphs \X Universe)
        \cup ({LAB1_GRAPH} \X (DOMAIN LAB1_GRAPH \cup {"Z"}))

\* ---------------------------------------------------------------- actions
\* Before a call: the page's defaults (the module's graph, start node 'A',
\* the first algorithm of the radio list) and no traversal state yet.
Init ==
    /\ graph = LAB1_GRAPH
    /\ start_node = "A"
    /\ algorithm = "bfs"
    /\ pc = "idle"
    /\ queue = <<>>
    /\ stack = <<>>
    /\ visited = {}
    /\ expanded_order = <<>>
    /\ trace = <<>>
    /\ node = NoNode
    /\ neighbors = <<>>

\* lines 51-54: breadth_first_search(g, s) is entered and sets up its locals
BfsCall ==
    /\ pc = "idle"
    /\ \E in \in Inputs : graph' = in[1] /\ start_node' = in[2]
    /\ algorithm' = "bfs"
    /\ expanded_order' = <<>>
    /\ trace' = <<>>
    /\ queue' = InitFrontier(start_node')
    /\ visited' = {start_node'}
    /\ pc' = "loop"
    /\ UNCHANGED <<stack, node, neighbors>>

\* lines 78-81: depth_first_search(g, s) is entered and sets up its locals
DfsCall ==
    /\ pc = "idle"
    /\ \E in \in Inputs : graph' = in[1] /\ start_node' = in[2]
    /\ algorithm' = "dfs"
    /\ expanded_order' = <<>>
    /\ trace' = <<>>
    /\ stack' = InitFrontier(start_node')
    /\ visited' = {start_node'}
    /\ pc' = "loop"
    /\ UNCHANGED <<queue, node, neighbors>>

\* where control goes once `rest` is what the for loop has left to examine
AfterScan(rest) == IF rest = <<>> THEN "loop" ELSE "scan"

\* lines 56-65: pop the head, record it, snapshot, sort the neighbors
BfsExpand ==
    /\ algorithm = "bfs" /\ pc = "loop" /\ queue # <<>>
    /\ LET popped == PopLeft(queue)
           order  == Append(expanded_order, popped[1])
       IN  /\ node' = popped[1]
           /\ queue' = popped[2]
           /\ expanded_order' = order
           /\ trace' = Append(trace, Snapshot(popped[1], popped[2], visited, order))
           /\ neighbors' = BfsNeighbors(graph, popped[1])
           /\ pc' = AfterScan(neighbors')
    /\ UNCHANGED <<graph, start_node, algorithm, stack, visited>>

\* lines 66-69: one iteration of the for loop
BfsVisit ==
    /\ algorithm = "bfs" /\ pc = "scan"
    /\ LET neighbor == Head(neighbors)
       IN  IF neighbor \notin visited
           THEN /\ visited' = Discover(visited, neighbor)
                /\ queue' = Append(queue, neighbor)
           ELSE UNCHANGED <<visited, queue>>
    /\ neighbors' = Tail(neighbors)
    /\ pc' = AfterScan(neighbors')
    /\ UNCHANGED <<graph, start_node, algorithm, stack, expanded_order, trace, node>>

\* line 70: the while test fails, the function returns
BfsReturn ==
    /\ algorithm = "bfs" /\ pc = "loop" /\ queue = <<>>
    /\ pc' = "done"
    /\ UNCHANGED <<graph, start_node, algorithm, queue, stack, visited,
                   expanded_order, trace, node, neighbors>>

\* lines 83-92
DfsExpand ==
    /\ algorithm = "dfs" /\ pc = "loop" /\ stack # <<>>
    /\ LET popped == Pop(stack)
           order  == Append(expanded_order, popped[1])
       IN  /\ node' = popped[1]
           /\ stack' = popped[2]
           /\ expanded_order' = order
           /\ trace' = Append(trace, Snapshot(popped[1], Reverse(popped[2]), visited, order))
           /\ neighbors' = DfsNeighbors(graph, popped[1])
           /\ pc' = AfterScan(neighbors')
    /\ UNCHANGED <<graph, start_node, algorithm, queue, visited>>

\* lines 93-96
DfsVisit ==
    /\ algorithm = "dfs" /\ pc = "scan"
    /\ LET neighbor == Head(neighbors)
       IN  IF neighbor \notin visited
           THEN /\ visited' = Discover(visited, neighbor)
                /\ stack' = Append(stack, neighbor)
           ELSE UNCHANGED <<visited, stack>>
    /\ neighbors' = Tail(neighbors)
    /\ pc' = AfterScan(neighbors')
    /\ UNCHANGED <<graph, start_node, algorithm, queue, expanded_order, trace, node>>

\* line 97
DfsReturn ==
    /\ algorithm = "dfs" /\ pc = "loop" /\ stack = <<>>
    /\ pc' = "done"
    /\ UNCHANGED <<graph, start_node, algorithm, queue, stack, visited,
                   expanded_order, trace, node, neighbors>>

Next ==
    \/ BfsCall
    \/ DfsCall
    \/ BfsExpand
    \/ BfsVisit
    \/ BfsReturn
    \/ DfsExpand
    \/ DfsVisit
    \/ DfsReturn

Spec == Init /\ [][Next]_vars

\* Both functions are straight-line synchronous code: a call that has a step
\* to take takes it.
FairSpec == Spec /\ WF_vars(Next)

\* ------------------------------------------------------ derived notions
\* The frontier as a reader of the trace sees it: the queue head first, the
\* stack top first.
LiveFrontier == IF algorithm = "bfs" THEN queue ELSE Reverse(stack)

IsFixtureRun(alg) ==
    graph = LAB1_GRAPH /\ start_node = "A" /\ algorithm = alg

NoDuplicates(seq) == \A i, j \in 1..Len(seq) : i # j => seq[i] # seq[j]

Pos(x, seq) == CHOOSE i \in 1..Len(seq) : seq[i] = x

\* x occurs in seq and, when y occurs too, x comes first
Precedes(x, y, seq) ==
    /\ x \in Range(seq)
    /\ y \in Range(seq) => Pos(x, seq) < Pos(y, seq)

\* What was known when snapshot k was taken, computed without reading the
\* snapshot's visited field: the nodes expanded up to step k and the nodes
\* on the frontier the snapshot shows.
KnownAt(k) ==
    Range(SubSeq(expanded_order, 1, k)) \cup Range(trace[k].frontier)

\* The children first discovered by expansion k.
ChildrenOf(k) ==
    {n \in Range(Get(graph, trace[k].expanded)) : n \notin KnownAt(k)}

AllNodes ==
    {start_node} \cup DOMAIN graph \cup UNION {Range(graph[k]) : k \in DOMAIN graph}

Successors(S) == UNION {Range(Get(graph, n)) : n \in S}

RECURSIVE DistFrom(_, _, _, _)
\* hop distance of target from the layer `layer` (itself at distance d), the
\* nodes of `seen` being nearer; -1 when target is unreachable
DistFrom(target, layer, seen, d) ==
    IF target \in layer THEN d
    ELSE IF layer = {} THEN -1
    ELSE DistFrom(target, Successors(layer) \ (seen \cup layer), seen \cup layer, d + 1)

Dist(n) == DistFrom(n, {start_node}, {}, 0)

Reachable == {n \in AllNodes : Dist(n) >= 0}

\* the start node is neither a key of the graph nor in any adjacency list
StartUnknown ==
    /\ start_node \notin DOMAIN graph
    /\ \A k \in DOMAIN graph : start_node \notin Range(graph[k])

\* ------------------------------------------------------------------ claims

\* C1 as stated: on the fixture graph from A, breadth_first_search returns
\* A, D, B, C, E, G, H, F.
C1_AsStated ==
    (IsFixtureRun("bfs") /\ pc = "done")
        => expanded_order = <<"A", "D", "B", "C", "E", "G", "H", "F">>

\* C1 amended: on the fixture graph from A, breadth_first_search returns
\* A, B, D, C, E, G, H, F (the neighbors of A are examined in ascending
\* order, B before D).
C1_BfsFixtureOrder ==
    (IsFixtureRun("bfs") /\ pc = "done")
        => expanded_order = <<"A", "B", "D", "C", "E", "G", "H", "F">>

C1_Witness ==
    IsFixtureRun("bfs") /\ pc = "done" /\ Len(expanded_order) = 8

\* C2 as stated: on the fixture graph from A, depth_first_search returns
\* A, D, C, B, E, H, G, F.
C2_AsStated ==
    (IsFixtureRun("dfs") /\ pc = "done")
        => expanded_order = <<"A", "D", "C", "B", "E", "H", "G", "F">>

\* C2 amended: on the fixture graph from A, depth_first_search returns
\* A, B, C, E, H, F, G, D.
C2_DfsFixtureOrder ==
    (IsFixtureRun("dfs") /\ pc = "done")
        => expanded_order = <<"A", "B", "C", "E", "H", "F", "G", "D">>

C2_Witness ==
    IsFixtureRun("dfs") /\ pc = "done" /\ Len(expanded_order) = 8

\* C3 as stated: on the fixture graph from A, the first snapshot of either
\* algorithm has expanded = A, frontier = [D, B], visited = {A, D, B},
\* process_path = "A".
C3_AsStated ==
    (graph = LAB1_GRAPH /\ start_node = "A" /\ Len(trace) >= 1)
        => trace[1] = [expanded     |-> "A",
                       frontier     |-> <<"D", "B">>,
                       visited      |-> {"A", "D", "B"},
                       process_path |-> "A"]

\* C3 amended: on the fixture graph from A, the first snapshot of either
\* algorithm has expanded = A, an empty frontier, visited = {A} and
\* process_path = "A" (it is taken before A's neighbors are examined).
C3_FirstSnapshot ==
    (graph = LAB1_GRAPH /\ start_node = "A" /\ Len(trace) >= 1)
        => trace[1] = [expanded     |-> "A",
                       frontier     |-> <<>>,
                       visited      |-> {"A"},
                       process_path |-> "A"]

C3_Witness ==
    /\ IsFixtureRun("dfs") /\ Len(trace) = 1 /\ pc = "loop"
    /\ stack = <<"D", "B">> /\ visited = {"A", "B", "D"}

\* C4: both algorithms terminate (the call returns, its frontier empty), and
\* at termination every node of the expansion order is in the visited set.
C4_Terminates ==
    /\ <>(pc = "done")
    /\ [](pc = "done" =>
            /\ queue = <<>> /\ stack = <<>>
            /\ Range(expanded_order) \subseteq visited)

C4_Witness ==
    /\ pc = "done" /\ Len(expanded_order) >= 2
    /\ \E n \in DOMAIN graph : n \in Range(graph[n])

\* C5: no node appears twice in the expansion order, nor twice among the
\* expanded and the frontier nodes together: a node is enqueued or pushed at
\* most once and expanded at most once.
C5_ExpandedOnce == NoDuplicates(expanded_order \o queue \o stack)

C5_Witness ==
    /\ pc = "done" /\ Len(expanded_order) >= 2
    /\ \E k \in DOMAIN graph :
          /\ ~NoDuplicates(graph[k])
          /\ k \in Range(expanded_order)
          /\ graph[k][1] \in Range(expanded_order) \ {k}

\* C6: when the node expanded at some step has two neighbors x < y that were
\* both undiscovered at that moment, breadth_first_search appends x to the
\* queue before y and depth_first_search expands x before y.
C6_TieBreak ==
    \A k \in 1..Len(trace) :
        (pc # "scan" \/ k < Len(trace)) =>
            \A x, y \in ChildrenOf(k) :
                Rank(x) < Rank(y) =>
                    IF algorithm = "bfs"
                    THEN Precedes(x, y, expanded_order \o queue)
                    ELSE y \in Range(expanded_order)
                            => Precedes(x, y, expanded_order)

C6_Witness ==
    /\ pc = "done" /\ algorithm = "dfs"
    /\ \E k \in 1..Len(trace) : \E x, y \in ChildrenOf(k) :
          /\ Rank(x) < Rank(y)
          /\ Pos(x, Get(graph, trace[k].expanded)) > Pos(y, Get(graph, trace[k].expanded))

\* C7: when the start node is neither a key nor in any adjacency list, the
\* call returns the expansion order [start], a trace of length one, and that
\* snapshot's frontier is empty.
C7_UnknownStart ==
    (StartUnknown /\ pc = "done") =>
        /\ expanded_order = <<start_node>>
        /\ Len(trace) = 1
        /\ trace[1].frontier = <<>>

C7_Witness ==
    /\ StartUnknown /\ pc = "done" /\ start_node = "Z"
    /\ graph = LAB1_GRAPH /\ Len(trace) = 1

\* C8: across consecutive snapshots the visited set never loses a member.
C8_VisitedMonotone ==
    \A k \in 1..(Len(trace) - 1) : trace[k].visited \subseteq trace[k + 1].visited

C8_Witness ==
    /\ Len(trace) >= 3
    /\ trace[1].visited # trace[2].visited
    /\ trace[2].visited # trace[3].visited

\* C9: a snapshot is taken after the pop and before the neighbor loop: it
\* names the node just expanded, which is no longer on its frontier; the
\* latest snapshot's frontier is the live frontier without the children this
\* expansion discovers; no snapshot's visited set holds a child first
\* discovered by its expansion; and its process_path is the arrow-joined
\* list of the nodes expanded up to and including its own.
C9_SnapshotTiming ==
    /\ \A k \in 1..Len(trace) :
          /\ trace[k].expanded = expanded_order[k]
          /\ trace[k].expanded \notin Range(trace[k].frontier)
          /\ trace[k].visited \cap ChildrenOf(k) = {}
          /\ trace[k].process_path = Join(SubSeq(expanded_order, 1, k))
    /\ trace # <<>> =>
          LET last == Len(trace)
              NotChild(n) == n \notin ChildrenOf(last)
          IN  trace[last].frontier = SelectSeq(LiveFrontier, NotChild)

C9_Witness ==
    /\ pc = "loop" /\ Len(trace) = 2
    /\ ChildrenOf(2) # {} /\ trace[2].frontier # <<>>
    /\ trace[2].process_path = "A → B"

\* C10: breadth_first_search returns exactly the nodes reachable from the
\* start node, in non-decreasing order of hop distance from it.
C10_LevelOrder ==
    (algorithm = "bfs" /\ pc = "done") =>
        /\ Range(expanded_order) = Reachable
        /\ \A i, j \in 1..Len(expanded_order) :
              i < j => Dist(expanded_order[i]) <= Dist(expanded_order[j])

C10_Witness ==
    /\ algorithm = "bfs" /\ pc = "done"
    /\ Reachable # AllNodes
    /\ \E i \in 1..Len(expanded_order) : Dist(expanded_order[i]) = 2
====
